---- MODULE Spec2Model ----
(***************************************************************************)
(* Timeline scene manager of ComfyUI-Lattice-Manim                         *)
(* (src/timeline_scene_manager.py): SceneLayer objects, the                *)
(* TimelineSceneManager that owns an ordered list of them, and the JSON    *)
(* form the manager is persisted in.                                       *)
(*                                                                         *)
(* Times are integers in hundredths of a second (0.01 s = 1).  SceneLayer  *)
(* objects live in a heap `objs` (address = index); `layers` holds         *)
(* addresses, as the Python list holds references.  JSON text is modelled  *)
(* by the value it denotes, tagged by JSON type, or InvalidText.           *)
(***************************************************************************)
EXTENDS Integers, Sequences, FiniteSets, TLC

VARIABLES
    audio_duration,   \* TimelineSceneManager.audio_duration
    layers,           \* TimelineSceneManager.layers: addresses into objs
    next_scene_id,    \* TimelineSceneManager.next_scene_id
    objs,             \* the SceneLayer objects alive (the manager's and the caller's)
    json,             \* the text last returned by to_json, until it is loaded or dropped
    saved,            \* history: the Timeline as it was when `json` was written
    assigned,         \* history: the ids add_scene assigned on this Timeline, in call order
    order,            \* history: the entries of `layers` in the order they were put in
    last              \* history: the last call and how it ended

vars == <<audio_duration, layers, next_scene_id, objs, json, saved, assigned, order, last>>

----------------------------------------------------------------------------
(* Bounds of the model *)

MaxObjs == 2      \* SceneLayer objects alive at once
MaxId == 3        \* add_scene / auto_detect_scenes stop once next_scene_id exceeds it
MaxWords == 2     \* words of a generated transcript

(* Program constants, in hundredths of a second *)

MinDuration == 1      \* 0.01 in get_duration
PointMargin == 10     \* 0.1 in set_in_point / set_out_point
Interval == 500       \* interval = 5.0 in auto_detect_scenes

(* Input values the callers draw from *)

AudioDurations == {0, 300}

----------------------------------------------------------------------------
(* Strings are sequences of one-character strings where the code looks     *)
(* inside them (words, prompts); other text fields are opaque.             *)

Max(a, b) == IF a >= b THEN a ELSE b
Min(a, b) == IF a <= b THEN a ELSE b

----------------------------------------------------------------------------
(* SceneLayer *)

\* SceneLayer.__init__: auto_generated is always False after construction
SceneLayer(scene_id, start_time, end_time, prompt, visual_type, manim_code, elements) ==
    [ scene_id |-> scene_id,
      start_time |-> start_time,
      end_time |-> end_time,
      prompt |-> prompt,
      visual_type |-> visual_type,
      manim_code |-> manim_code,
      elements |-> elements,       \* `elements or []`: a list stays as it is
      auto_generated |-> FALSE,
      shadowed |-> {} ]            \* methods hidden by an instance attribute (setattr)

\* SceneLayer.get_duration
get_duration(s) == Max(MinDuration, s.end_time - s.start_time)

\* SceneLayer.set_in_point
set_in_point(s, time) ==
    [s EXCEPT !.start_time = Max(0, Min(time, s.end_time - PointMargin))]

\* SceneLayer.set_out_point
set_out_point(s, time) ==
    [s EXCEPT !.end_time = Max(s.start_time + PointMargin, time)]

----------------------------------------------------------------------------
(* JSON.  A text is the JSON value it denotes, tagged with its JSON type,  *)
(* or InvalidText when it denotes none.                                    *)

InvalidText == [kind |-> "invalid"]
JNull == [kind |-> "null"]
JNum(n) == [kind |-> "number", val |-> n]
JStr(s) == [kind |-> "string", val |-> s]
JBool(b) == [kind |-> "bool", val |-> b]
JArr(items) == [kind |-> "array", items |-> items]
JObj(members) == [kind |-> "object", members |-> members]
NoMembers == [k \in {} |-> JNull]

\* dict.get(key, default) on a decoded JSON object
Get(obj, key, default) ==
    IF key \in DOMAIN obj.members THEN obj.members[key] ELSE default

\* SceneLayer.to_dict followed by json.dumps: the record of one layer
to_dict(s) ==
    JObj( [ k \in {"id", "start_time", "end_time", "prompt", "visual_type",
                   "manim_code", "elements", "auto_generated"} |->
            CASE k = "id" -> JNum(s.scene_id)
              [] k = "start_time" -> JNum(s.start_time)
              [] k = "end_time" -> JNum(s.end_time)
              [] k = "prompt" -> JStr(s.prompt)
              [] k = "visual_type" -> JStr(s.visual_type)
              [] k = "manim_code" -> JStr(s.manim_code)
              [] k = "elements" -> JArr(s.elements)
              [] k = "auto_generated" -> JBool(s.auto_generated) ] )

\* SceneLayer.from_dict: seven keys are read, each with its default;
\* "auto_generated" is not among them, so __init__ leaves the flag False
from_dict(data) ==
    SceneLayer( Get(data, "id", JNum(0)).val,
                Get(data, "start_time", JNum(0)).val,
                Get(data, "end_time", JNum(0)).val,
                Get(data, "prompt", JStr(<<>>)).val,
                Get(data, "visual_type", JStr("auto")).val,
                Get(data, "manim_code", JStr("")).val,
                Get(data, "elements", JArr(<<>>)).items )

----------------------------------------------------------------------------
(* TimelineSceneManager.  A manager value m is the record                  *)
(* [audio_duration, layers, next_scene_id, objs].                          *)

\* TimelineSceneManager.__init__
NewManager(d) ==
    [audio_duration |-> d, layers |-> <<>>, next_scene_id |-> 1, objs |-> <<>>]

\* the layers of m as values, in list order
LayerValues(m) == [i \in 1..Len(m.layers) |-> m.objs[m.layers[i]]]

\* sort_layers with the sort left out
sort_layers_none(ls, os) == ls

\* list.sort(key=lambda s: s.start_time): ascending and stable, so an entry
\* goes after the entries with a smaller key and after the earlier entries
\* with an equal key
sort_layers(ls, os) ==
    LET n == Len(ls)
        key(i) == os[ls[i]].start_time
        rank(i) == 1 + Cardinality({j \in 1..n :
                       key(j) < key(i) \/ (key(j) = key(i) /\ j < i)})
    IN  [p \in 1..n |-> ls[CHOOSE i \in 1..n : rank(i) = p]]

\* add_scene with the id of the object passed left as it is
add_scene_keep_id(m, a) ==
    [m EXCEPT !.next_scene_id = m.next_scene_id + 1,
              !.layers = sort_layers(Append(m.layers, a), m.objs)]

\* add_scene with the counter left as it is
add_scene_no_increment(m, a) ==
    LET os == [m.objs EXCEPT ![a].scene_id = m.next_scene_id]
    IN  [m EXCEPT !.objs = os,
                  !.layers = sort_layers(Append(m.layers, a), os)]

\* TimelineSceneManager.add_scene, `a` the address of the object passed
add_scene(m, a) ==
    LET os == [m.objs EXCEPT ![a].scene_id = m.next_scene_id]
    IN  [m EXCEPT !.objs = os,
                  !.next_scene_id = m.next_scene_id + 1,
                  !.layers = sort_layers(Append(m.layers, a), os)]

\* remove_scene that also takes the counter back to the number of layers left
remove_scene_recount(m, scene_id) ==
    LET left == SelectSeq(m.layers, LAMBDA a : m.objs[a].scene_id # scene_id)
    IN  [m EXCEPT !.layers = left, !.next_scene_id = Len(left) + 1]

\* TimelineSceneManager.remove_scene
remove_scene(m, scene_id) ==
    [m EXCEPT !.layers = SelectSeq(m.layers, LAMBDA a : m.objs[a].scene_id # scene_id)]

\* TimelineSceneManager.get_scene: the address of the first layer with the
\* id, or 0 for None
get_scene(m, scene_id) ==
    LET hits == {i \in 1..Len(m.layers) : m.objs[m.layers[i]].scene_id = scene_id}
    IN  IF hits = {} THEN 0
        ELSE m.layers[CHOOSE i \in hits : \A j \in hits : i <= j]

\* the names hasattr(scene, key) finds on a SceneLayer: the attributes
\* __init__ sets and the methods of the class
DataAttrs == {"scene_id", "start_time", "end_time", "prompt", "visual_type",
              "manim_code", "elements", "auto_generated"}
MethodNames == {"to_dict", "from_dict", "set_in_point", "set_out_point", "get_duration"}

\* `if hasattr(scene, key): setattr(scene, key, value)` of update_scene
set_if_has(s, key, value) ==
    CASE key = "scene_id" -> [s EXCEPT !.scene_id = value]
      [] key = "start_time" -> [s EXCEPT !.start_time = value]
      [] key = "end_time" -> [s EXCEPT !.end_time = value]
      [] key = "prompt" -> [s EXCEPT !.prompt = value]
      [] key = "visual_type" -> [s EXCEPT !.visual_type = value]
      [] key = "manim_code" -> [s EXCEPT !.manim_code = value]
      [] key = "elements" -> [s EXCEPT !.elements = value]
      [] key = "auto_generated" -> [s EXCEPT !.auto_generated = value]
      [] key \in MethodNames -> [s EXCEPT !.shadowed = @ \cup {key}]
      [] OTHER -> s

RECURSIVE apply_kwargs(_, _)
\* the loop over kwargs.items() of update_scene
apply_kwargs(s, kwargs) ==
    IF kwargs = <<>> THEN s
    ELSE apply_kwargs(set_if_has(s, Head(kwargs)[1], Head(kwargs)[2]), Tail(kwargs))

\* TimelineSceneManager.update_scene, kwargs a sequence of <<key, value>>
update_scene(m, scene_id, kwargs) ==
    LET a == get_scene(m, scene_id)
    IN  IF a = 0 THEN m
        ELSE [m EXCEPT !.objs[a] = apply_kwargs(@, kwargs)]

\* get_scenes_at_time that leaves out a layer that ends at the time asked
get_scenes_at_time_half_open(m, time) ==
    SelectSeq(m.layers, LAMBDA a :
        m.objs[a].start_time <= time /\ time < m.objs[a].end_time)

\* TimelineSceneManager.get_scenes_at_time: the addresses of the layers hit
get_scenes_at_time(m, time) ==
    SelectSeq(m.layers, LAMBDA a :
        m.objs[a].start_time <= time /\ time <= m.objs[a].end_time)

\* TimelineSceneManager.to_json
to_json(m) ==
    JObj( [ k \in {"audio_duration", "scenes"} |->
            IF k = "audio_duration" THEN JNum(m.audio_duration)
            ELSE JArr([i \in 1..Len(m.layers) |-> to_dict(m.objs[m.layers[i]])]) ] )

\* from_json left by an exception, and from_json returning a manager
Failure(name) == [ok |-> FALSE, error |-> name, m |-> NewManager(0)]
Success(m) == [ok |-> TRUE, error |-> "none", m |-> m]

RECURSIVE load_scenes_count(_, _)
\* load_scenes with the counter set to the number of layers + 1
load_scenes_count(m, items) ==
    IF items = <<>> THEN Success(m)
    ELSE IF Head(items).kind # "object" THEN Failure("AttributeError")
    ELSE LET scene == from_dict(Head(items))
         IN  load_scenes_count(
                 [m EXCEPT !.objs = Append(@, scene),
                           !.layers = Append(@, Len(m.objs) + 1),
                           !.next_scene_id = Len(m.objs) + 2],
                 Tail(items))

RECURSIVE load_scenes_no_max(_, _)
\* load_scenes with the counter set from the record just read
load_scenes_no_max(m, items) ==
    IF items = <<>> THEN Success(m)
    ELSE IF Head(items).kind # "object" THEN Failure("AttributeError")
    ELSE LET scene == from_dict(Head(items))
         IN  load_scenes_no_max(
                 [m EXCEPT !.objs = Append(@, scene),
                           !.layers = Append(@, Len(m.objs) + 1),
                           !.next_scene_id = scene.scene_id + 1],
                 Tail(items))

RECURSIVE load_scenes(_, _)
\* the loop of from_json over the scene records, failing at the first
\* record that is no object
load_scenes(m, items) ==
    IF items = <<>> THEN Success(m)
    ELSE IF Head(items).kind # "object" THEN Failure("AttributeError")
    ELSE LET scene == from_dict(Head(items))
         IN  load_scenes(
                 [m EXCEPT !.objs = Append(@, scene),
                           !.layers = Append(@, Len(m.objs) + 1),
                           !.next_scene_id = Max(@, scene.scene_id + 1)],
                 Tail(items))

\* from_json that takes a value that is no object for an empty Timeline
from_json_lenient(text) ==
    IF text.kind = "invalid" THEN Failure("JSONDecodeError")
    ELSE IF text.kind # "object" THEN Success(NewManager(0))
    ELSE Success(NewManager(Get(text, "audio_duration", JNum(0)).val))

\* TimelineSceneManager.from_json: a result [ok, error, m].  Iterating
\* data.get("scenes", []) gives the items of a list; nothing for an empty
\* string or object; for a non-empty string or object values with no .get
\* (from_dict raises AttributeError); TypeError for a number, boolean or null
from_json(text) ==
    IF text.kind = "invalid" THEN Failure("JSONDecodeError")
    ELSE IF text.kind # "object" THEN Failure("AttributeError")
    ELSE LET m0 == NewManager(Get(text, "audio_duration", JNum(0)).val)
             scenes == Get(text, "scenes", JArr(<<>>))
             r == CASE scenes.kind = "array" -> load_scenes(m0, scenes.items)
                    [] scenes.kind = "string" ->
                         IF scenes.val = <<>> THEN Success(m0)
                         ELSE Failure("AttributeError")
                    [] scenes.kind = "object" ->
                         IF DOMAIN scenes.members = {} THEN Success(m0)
                         ELSE Failure("AttributeError")
                    [] OTHER -> Failure("TypeError")
         IN  IF r.ok
             THEN Success([r.m EXCEPT !.layers = sort_layers(r.m.layers, r.m.objs)])
             ELSE r

----------------------------------------------------------------------------
(* auto_detect_scenes.  A word record is [word, start, end], its text a    *)
(* sequence of characters.                                                 *)

Whitespace == {" "}
Terminators == {".", "!", "?", ":", ";"}

\* str.strip()
strip(w) ==
    LET solid == {i \in 1..Len(w) : w[i] \notin Whitespace}
    IN  IF solid = {} THEN <<>>
        ELSE SubSeq(w, CHOOSE i \in solid : \A j \in solid : i <= j,
                       CHOOSE i \in solid : \A j \in solid : i >= j)

\* any(word.endswith(p) for p in ['.', '!', '?', ':', ';'])
ends_sentence(word) == word # <<>> /\ word[Len(word)] \in Terminators

RECURSIVE group_words_keep_blank(_, _, _)
\* group_words that takes a blank word for a word of the sentence
group_words_keep_blank(sentences, current, words) ==
    IF words = <<>>
    THEN IF current # <<>> THEN Append(sentences, current) ELSE sentences
    ELSE LET word == strip(Head(words).word)
         IN  IF ends_sentence(word)
             THEN group_words_keep_blank(Append(sentences, Append(current, Head(words))),
                                         <<>>, Tail(words))
             ELSE group_words_keep_blank(sentences, Append(current, Head(words)),
                                         Tail(words))

RECURSIVE group_words_no_tail(_, _, _)
\* group_words that drops the words after the last terminator
group_words_no_tail(sentences, current, words) ==
    IF words = <<>> THEN sentences
    ELSE LET word == strip(Head(words).word)
         IN  IF word = <<>> THEN group_words_no_tail(sentences, current, Tail(words))
             ELSE IF ends_sentence(word)
             THEN group_words_no_tail(Append(sentences, Append(current, Head(words))),
                                      <<>>, Tail(words))
             ELSE group_words_no_tail(sentences, Append(current, Head(words)), Tail(words))

RECURSIVE group_words(_, _, _)
\* the first loop of the sentence branch: `sentences` so far, the
\* `current_sentence`, the words left
group_words(sentences, current, words) ==
    IF words = <<>>
    THEN IF current # <<>> THEN Append(sentences, current) ELSE sentences
    ELSE LET word == strip(Head(words).word)
         IN  IF word = <<>> THEN group_words(sentences, current, Tail(words))
             ELSE IF ends_sentence(word)
             THEN group_words(Append(sentences, Append(current, Head(words))),
                              <<>>, Tail(words))
             ELSE group_words(sentences, Append(current, Head(words)), Tail(words))

RECURSIVE join_words(_)
\* ' '.join(w['word'].strip() for w in sentence_words)
join_words(ws) ==
    IF ws = <<>> THEN <<>>
    ELSE IF Len(ws) = 1 THEN strip(ws[1].word)
    ELSE strip(ws[1].word) \o <<" ">> \o join_words(Tail(ws))

\* the scene built from the k-th sentence (sentences are never empty here)
sentence_scene(m, sentence_words, k) ==
    [ SceneLayer(m.next_scene_id + k - 1,
                 sentence_words[1].start,
                 sentence_words[Len(sentence_words)].end,
                 join_words(sentence_words), "auto", "", <<>>)
      EXCEPT !.auto_generated = TRUE ]

\* auto_detect_scenes that also appends what it detects to `layers`
auto_detect_scenes_inserting(m, word_timestamps, method) ==
    IF method = "sentence"
    THEN LET sentences == group_words(<<>>, <<>>, word_timestamps)
             n == Len(sentences)
             made == [k \in 1..n |-> sentence_scene(m, sentences[k], k)]
             new == [k \in 1..n |-> Len(m.objs) + k]
         IN  [ ok |-> TRUE, error |-> "none",
               m |-> [m EXCEPT !.objs = @ \o made,
                               !.next_scene_id = @ + n,
                               !.layers = sort_layers(@ \o new, m.objs \o made)],
               scenes |-> new ]
    ELSE [ok |-> TRUE, error |-> "none", m |-> m, scenes |-> <<>>]

\* TimelineSceneManager.auto_detect_scenes: a result [ok, error, m, scenes],
\* `scenes` the addresses of the SceneLayer objects returned.  In the "time"
\* branch SceneLayer(...) is called with auto_generated=True, a keyword
\* __init__ does not take: the first pass of the loop raises TypeError
\* before anything is assigned.
auto_detect_scenes(m, word_timestamps, method) ==
    IF method = "sentence"
    THEN LET sentences == group_words(<<>>, <<>>, word_timestamps)
             n == Len(sentences)
             made == [k \in 1..n |-> sentence_scene(m, sentences[k], k)]
         IN  [ ok |-> TRUE, error |-> "none",
               m |-> [m EXCEPT !.objs = @ \o made,
                               !.next_scene_id = @ + n],
               scenes |-> [k \in 1..n |-> Len(m.objs) + k] ]
    ELSE IF method = "time"
    THEN IF 0 < m.audio_duration
         THEN [ok |-> FALSE, error |-> "TypeError", m |-> m, scenes |-> <<>>]
         ELSE [ok |-> TRUE, error |-> "none", m |-> m, scenes |-> <<>>]
    ELSE [ok |-> TRUE, error |-> "none", m |-> m, scenes |-> <<>>]

----------------------------------------------------------------------------
(* generate_manim_timeline_code.  The text returned is modelled by its     *)
(* parts: the strategy, and per layer a block [scene_id, key, indent,      *)
(* body], `body` the statements of the layer in the order they are written.*)
(* A time of n hundredths formats with {:.2f} to the decimal text of       *)
(* n / 100, which is kept as n.                                            *)

\* the length a prompt is cut to in a placeholder's comment, and the
\* indentation of a layer's code in the two branches
TitleLength == 50
TimelineIndent == 12
SequentialIndent == 8

\* scene.prompt[:50] if scene.prompt else 'Untitled'
title(s) ==
    IF s.prompt = <<>> THEN <<"U", "n", "t", "i", "t", "l", "e", "d">>
    ELSE SubSeq(s.prompt, 1, Min(TitleLength, Len(s.prompt)))

Custom(text) == [stmt |-> "custom", text |-> text]
Comment(id, text) == [stmt |-> "comment", scene_id |-> id, text |-> text]
Marker == [stmt |-> "comment_auto_generated"]
CreateCircle == [stmt |-> "circle"]
AddCircle == [stmt |-> "add"]
Play(run_time) == [stmt |-> "play", run_time |-> run_time]

\* scene_code of the timeline branch
timeline_scene_code(s) ==
    IF s.manim_code # "" THEN << Custom(s.manim_code) >>
    ELSE << Comment(s.scene_id, title(s)), Marker, CreateCircle, AddCircle,
            Play(Max(MinDuration, get_duration(s))) >>

\* scene_code of the sequential branch with the span of the layer as it is
sequential_scene_code_raw(s) ==
    IF s.manim_code # "" THEN << Custom(s.manim_code) >>
    ELSE << Comment(s.scene_id, title(s)), CreateCircle, AddCircle,
            Play(s.end_time - s.start_time) >>

\* scene_code of the sequential branch
sequential_scene_code(s) ==
    IF s.manim_code # "" THEN << Custom(s.manim_code) >>
    ELSE << Comment(s.scene_id, title(s)), CreateCircle, AddCircle,
            Play(get_duration(s)) >>

\* the part of the text written for one layer: in the timeline branch the
\* function scene_<id>_exec and the assignment timeline[start_time] = it
Block(id, key, indent, body) ==
    [scene_id |-> id, key |-> key, indent |-> indent, body |-> body]
NoKey == [none |-> TRUE]
Keyed(t) == [none |-> FALSE, time |-> t]

Document(strategy, blocks) ==
    [strategy |-> strategy, blocks |-> blocks, captions |-> FALSE]
NoDocument == [strategy |-> "none", blocks |-> <<>>, captions |-> FALSE]

\* what a call of generate_manim_timeline_code ends in
Generated(m, code) == [ok |-> TRUE, error |-> "none", m |-> m, code |-> code]
NotGenerated(m, name) == [ok |-> FALSE, error |-> name, m |-> m, code |-> NoDocument]

\* generate_manim_timeline_code that takes the names of the functions from
\* the next-id counter and moves it on
generate_manim_timeline_code_counting(m, use_timeline) ==
    IF m.layers = <<>> THEN Generated(m, Document("empty", <<>>))
    ELSE Generated(
             [m EXCEPT !.next_scene_id = @ + 1],
             Document(IF use_timeline THEN "timeline" ELSE "sequential",
                      [i \in 1..Len(m.layers) |->
                          LET s == m.objs[m.layers[i]]
                          IN  IF use_timeline
                              THEN Block(m.next_scene_id, Keyed(s.start_time), TimelineIndent,
                                         timeline_scene_code(s))
                              ELSE Block(m.next_scene_id, NoKey, SequentialIndent,
                                         sequential_scene_code(s))]))

\* TimelineSceneManager.generate_manim_timeline_code, `use_timeline` whether
\* manim_play_timeline can be imported.  Both branches call
\* scene.get_duration() for every layer, a TypeError when get_duration is
\* hidden by an instance attribute.
generate_manim_timeline_code(m, use_timeline) ==
    IF m.layers = <<>> THEN Generated(m, Document("empty", <<>>))
    ELSE IF \E i \in 1..Len(m.layers) : "get_duration" \in m.objs[m.layers[i]].shadowed
    THEN NotGenerated(m, "TypeError")
    ELSE Generated(m,
             Document(IF use_timeline THEN "timeline" ELSE "sequential",
                      [i \in 1..Len(m.layers) |->
                          LET s == m.objs[m.layers[i]]
                          IN  IF use_timeline
                              THEN Block(s.scene_id, Keyed(s.start_time), TimelineIndent,
                                         timeline_scene_code(s))
                              ELSE Block(s.scene_id, NoKey, SequentialIndent,
                                         sequential_scene_code(s))]))

\* the dict `timeline` the generated text builds when it runs: every
\* assignment timeline[start_time] = scene_<id>_exec in the order written,
\* a later one replacing an earlier one with the same key; a key is mapped
\* to the position of the block whose function it holds
timeline_dict(code) ==
    LET keys == {code.blocks[i].key.time : i \in 1..Len(code.blocks)}
    IN  [k \in keys |->
            CHOOSE i \in 1..Len(code.blocks) :
                /\ code.blocks[i].key.time = k
                /\ \A j \in 1..Len(code.blocks) : code.blocks[j].key.time = k => j <= i]

RECURSIVE add_each(_, _)
\* the caller's loop `for scene in detected_scenes: manager.add_scene(scene)`
add_each(m, scenes) ==
    IF scenes = <<>> THEN m
    ELSE add_each(add_scene(m, Head(scenes)), Tail(scenes))

----------------------------------------------------------------------------
(* ManimTimelineSceneNode.render_timeline_scenes.  A run is modelled by    *)
(* what it is given and by what its collaborators answer: the transcript   *)
(* of the audio, the reply of generate_code for each layer, whether        *)
(* manim_play_timeline can be imported, the return code of manim.  The     *)
(* result holds the manager of the run, the steps taken in order, the     *)
(* document validated, the document handed to manim, the JSON returned.    *)

\* an empty or blank timeline_json
BlankText == [kind |-> "blank"]

\* format_word_timestamps: the words of the transcription, each stripped
format_word_timestamps(words) ==
    [i \in 1..Len(words) |-> [words[i] EXCEPT !.word = strip(@)]]

\* a reply of code_generator.generate_code: an exception, or a text
Raises == [raised |-> TRUE, code |-> ""]
Returns(code) == [raised |-> FALSE, code |-> code]

\* scene.manim_code of the except branch: a comment with id and prompt, a
\* circle, self.add(circle)
FallbackCode == "# Scene\ncircle = Circle(radius=1, color=BLUE)\nself.add(circle)"

\* texts ast.parse rejects
Unparseable == {"bad("}

\* a step of a run; for a call of generate_code the position of the layer,
\* how the call ended and the text it returned
Step(name) == [step |-> name, layer |-> 0, result |-> "done", text |-> ""]
LayerStep(name, i, reply) ==
    [ step |-> name, layer |-> i,
      result |-> IF reply.raised THEN "raised" ELSE "returned",
      text |-> reply.code ]

RECURSIVE fill_code_stopping(_, _, _, _)
\* the loop with an exception of generate_code ending it
fill_code_stopping(m, i, replies, steps) ==
    IF i > Len(m.layers) THEN [m |-> m, steps |-> steps]
    ELSE LET a == m.layers[i]
             s == m.objs[a]
         IN  IF s.manim_code = "" /\ s.prompt # <<>>
             THEN IF replies[i].raised
                  THEN [m |-> m,
                        steps |-> Append(steps, LayerStep("generate_code", i, replies[i]))]
                  ELSE fill_code_stopping(
                           [m EXCEPT !.objs[a].manim_code = replies[i].code],
                           i + 1, replies,
                           Append(steps, LayerStep("generate_code", i, replies[i])))
             ELSE fill_code_stopping(m, i + 1, replies, steps)

RECURSIVE fill_code(_, _, _, _)
\* the loop `for scene in timeline_manager.layers` from the i-th layer on:
\* generate_code is called for a layer with a prompt and no code, and its
\* text, or the fallback when it raises, becomes the layer's manim_code
fill_code(m, i, replies, steps) ==
    IF i > Len(m.layers) THEN [m |-> m, steps |-> steps]
    ELSE LET a == m.layers[i]
             s == m.objs[a]
         IN  IF s.manim_code = "" /\ s.prompt # <<>>
             THEN fill_code(
                      [m EXCEPT !.objs[a].manim_code =
                                    IF replies[i].raised THEN FallbackCode
                                    ELSE replies[i].code],
                      i + 1, replies,
                      Append(steps, LayerStep("generate_code", i, replies[i])))
             ELSE fill_code(m, i + 1, replies, steps)

\* is_valid of validate_manim_code taken as True
validate_manim_code_skipped(code) == TRUE

\* validate_manim_code(full_code): ast.parse accepts the text when every
\* layer's own code parses; the header and generate_manim_timeline_code
\* supply "from manim import" and "def construct" in every text
validate_manim_code(code) ==
    /\ code.strategy # "none"
    /\ \A i \in 1..Len(code.blocks) :
          \A j \in 1..Len(code.blocks[i].body) :
              code.blocks[i].body[j].stmt = "custom" =>
                  code.blocks[i].body[j].text \notin Unparseable

\* a run left by an exception after `steps`, and a run that returned
Ended(name, m, before, steps, document) ==
    [ outcome |-> name, m |-> m, before |-> before, steps |-> steps,
      document |-> document, rendered |-> NoDocument, json |-> [kind |-> "none"] ]
Returned(m, before, steps, document) ==
    [ outcome |-> "ok", m |-> m, before |-> before, steps |-> steps,
      document |-> document, rendered |-> document, json |-> to_json(m) ]

\* lines 843-869: the manager the run works on, or the exception
load_timeline(timeline_json, duration) ==
    LET text == IF timeline_json.kind = "blank" THEN JObj(NoMembers)
                ELSE timeline_json
        r == from_json(text)
    IN  IF text.kind = "invalid" THEN Failure("ValueError")
        ELSE IF text.kind # "object" THEN Success(NewManager(duration))
        ELSE IF r.ok
        THEN Success([r.m EXCEPT !.audio_duration = Max(@, duration)])
        ELSE IF r.error \in {"ValueError", "KeyError", "AttributeError"}
        THEN Success(NewManager(duration))
        ELSE Failure(r.error)

\* lines 901-1002 on the manager m after the code loop
compile_and_render(m, before, steps0, in, word_timestamps) ==
    LET g == generate_manim_timeline_code(m, in.use_timeline)
        steps1 == Append(steps0, Step("compile"))
        spliced == in.enable_captions /\ word_timestamps # <<>>
        code == [g.code EXCEPT !.captions = spliced]
        steps2 == IF spliced THEN Append(steps1, Step("captions")) ELSE steps1
        steps3 == Append(steps2, Step("validate"))
        steps4 == Append(steps3, Step("render"))
    IN  IF ~g.ok THEN Ended(g.error, m, before, steps1, NoDocument)
        ELSE IF ~validate_manim_code(code)
        THEN Ended("ValueError", m, before, steps3, code)
        ELSE IF in.returncode # 0
        THEN [Ended("RuntimeError", m, before, steps4, code) EXCEPT !.rendered = code]
        ELSE Returned(m, before, Append(steps4, Step("to_json")), code)

\* render_timeline_scenes.  word_timestamps is filled only when there is
\* audio and auto_detect_scenes is set.
render_timeline_scenes(in) ==
    LET duration == IF in.audio.some THEN in.audio.duration ELSE 0
        word_timestamps == IF in.audio.some /\ in.auto_detect_scenes
                           THEN format_word_timestamps(in.audio.transcript)
                           ELSE <<>>
        loaded == load_timeline(in.timeline_json, duration)
        steps0 == << Step("load") >>
        d == auto_detect_scenes(loaded.m, word_timestamps, in.detection_method)
        detect == loaded.m.layers = <<>>
        m1 == IF detect THEN add_each(d.m, d.scenes) ELSE loaded.m
        steps1 == IF detect THEN Append(steps0, Step("detect")) ELSE steps0
        f == fill_code(m1, 1, in.replies, steps1)
    IN  IF ~loaded.ok
        THEN Ended(loaded.error, loaded.m, <<>>, steps0, NoDocument)
        ELSE IF detect /\ ~(in.auto_detect_scenes /\ word_timestamps # <<>>)
        THEN Ended("ValueError", loaded.m, <<>>, steps0, NoDocument)
        ELSE IF detect /\ ~d.ok
        THEN Ended(d.error, d.m, <<>>, steps1, NoDocument)
        ELSE compile_and_render(f.m, LayerValues(m1), f.steps, in, word_timestamps)

----------------------------------------------------------------------------
(* State *)

\* the manager the variables hold
M == [audio_duration |-> audio_duration, layers |-> layers,
      next_scene_id |-> next_scene_id, objs |-> objs]

Install(m) ==
    /\ audio_duration' = m.audio_duration
    /\ layers' = m.layers
    /\ next_scene_id' = m.next_scene_id
    /\ objs' = m.objs

NoText == [kind |-> "none"]
NoSaved == [some |-> FALSE, audio_duration |-> 0, layers |-> <<>>, next_scene_id |-> 0]
Snapshot(m) == [some |-> TRUE, audio_duration |-> m.audio_duration,
                layers |-> LayerValues(m), next_scene_id |-> m.next_scene_id]

NoArg == [none |-> TRUE]
NoRet == <<>>

\* the record of a call: its name, "ok" or the exception it raised, the
\* text it was given (from_json), its other arguments and the list it returned
CalledWith(op, outcome, arg, ret) ==
    [op |-> op, outcome |-> outcome, text |-> NoText, arg |-> arg, ret |-> ret]
Called(op, outcome, text) ==
    [op |-> op, outcome |-> outcome, text |-> text, arg |-> NoArg, ret |-> NoRet]

\* a call other than to_json / from_json: the text of an earlier to_json is dropped
Forget == json' = NoText /\ saved' = NoSaved

----------------------------------------------------------------------------
(* Inputs *)

Element == JObj(NoMembers)

\* the SceneLayer(...) calls of the caller
SceneInputs ==
    { SceneLayer(1, 0, 300, <<"p">>, "auto", "code1", <<>>),
      SceneLayer(2, 300, 600, <<>>, "shape", "", <<Element>>),
      SceneLayer(7, 300, 300, <<>>, "auto", "", <<>>) }

\* keyword arguments of update_scene
KwargsInputs ==
    { << <<"scene_id", 9>> >>,
      << <<"start_time", 400>>, <<"manim_code", "code2">>, <<"id", 5>> >> }

\* keyword arguments that name a field, a record key, no attribute at all,
\* a method
UpdateInputs ==
    { << <<"prompt", <<"q">>>>, <<"end_time", 900>> >>,
      << <<"id", 5>>, <<"nosuch", 1>> >>,
      << <<"to_dict", 5>> >>,
      << <<"visual_type", "shape">>, <<"set_in_point", 5>> >> }

\* ids a caller asks for
IdInputs == {1, 2, 9}

W(word, start, end) == [word |-> word, start |-> start, end |-> end]

\* word timestamps handed to auto_detect_scenes
WordsBlank == << W(<<" ">>, 0, 50) >>
WordsHi == << W(<<"H", "i">>, 0, 50), W(<<".">>, 50, 60), W(<<" ", "a", " ">>, 300, 300) >>
WordsOne == << W(<<"O", "k", "!">>, 100, 150) >>
WordInputs == { <<>>, WordsBlank, WordsHi }

\* transcripts of no, one and two sentences
DetectInputs == { WordsBlank, WordsOne, WordsHi }

Methods == {"sentence", "time", "other"}

\* the transcript of test_timeline_auto_detection
WordsTest ==
    << W(<<"H", "e", "l", "l", "o">>, 0, 50), W(<<"w", "o", "r", "l", "d">>, 50, 100),
       W(<<".">>, 100, 110), W(<<"T", "h", "i", "s">>, 150, 180),
       W(<<"i", "s">>, 180, 200), W(<<"a">>, 200, 210),
       W(<<"t", "e", "s", "t">>, 210, 250), W(<<".">>, 250, 260) >>

\* transcripts of up to MaxWords words: a plain word, a blank one, a padded
\* lone full stop; the i-th word is spoken from 0.1 * (i - 1) to 0.1 * i - 0.05
WordTexts == { <<"a">>, <<" ">>, <<" ", ".", " ">> }
WordsOf(texts) == [i \in 1..Len(texts) |-> W(texts[i], 10 * (i - 1), 10 * i - 5)]
Transcripts ==
    {WordsOf(t) : t \in UNION {[1..n -> WordTexts] : n \in 0..MaxWords}}
       \cup {WordsTest, WordsHi, WordsOne}

\* scene records of hand-written timeline files
R(members) == JObj(members)
RecEmpty == R(NoMembers)
RecOne == R("id" :> JNum(1) @@ "start_time" :> JNum(300) @@ "end_time" :> JNum(600))
RecAuto == R("id" :> JNum(1) @@ "start_time" :> JNum(0) @@ "end_time" :> JNum(300)
               @@ "prompt" :> JStr(<<"p">>) @@ "auto_generated" :> JBool(TRUE))
RecNeg == R("id" :> JNum(-3) @@ "start_time" :> JNum(0) @@ "end_time" :> JNum(300))
RecThree == R("id" :> JNum(3) @@ "start_time" :> JNum(300) @@ "end_time" :> JNum(0))

Doc(d, recs) == JObj("audio_duration" :> JNum(d) @@ "scenes" :> JArr(recs))

\* texts that from_json rejects
BadTexts ==
    { InvalidText, JNull, JNum(5), JStr(<<"x">>), JBool(TRUE), JArr(<<>>),
      JArr(<<RecOne>>),
      JObj("scenes" :> JNull),
      JObj("scenes" :> JStr(<<"a">>)),
      JObj("scenes" :> JArr(<<JNum(1)>>)) }

\* hand-written timeline files
GoodTexts ==
    { JObj(NoMembers),
      JObj("audio_duration" :> JNum(300)),
      JObj("scenes" :> JObj(NoMembers)),
      JObj("scenes" :> JArr(<<RecEmpty>>)),
      JObj("scenes" :> JArr(<<RecNeg>>)),
      Doc(300, <<RecOne, RecAuto>>),
      Doc(300, <<RecThree, RecOne>>),
      Doc(0, <<RecNeg, RecEmpty>>) }

\* texts a caller hands to from_json besides what to_json returned
ExternalTexts == BadTexts \cup GoodTexts

\* three of them: no JSON, the empty object, two records with the same id
SomeTexts == {InvalidText, JObj(NoMembers), Doc(300, <<RecOne, RecAuto>>)}

\* timeline files of the node: a scene with a prompt and no code after a
\* scene with code, two scenes with prompts and no code, a scene with
\* neither, a scene whose code does not parse
RecCode == R("id" :> JNum(1) @@ "start_time" :> JNum(0) @@ "end_time" :> JNum(300)
               @@ "prompt" :> JStr(<<"p">>) @@ "manim_code" :> JStr("code1"))
RecPrompt == R("id" :> JNum(2) @@ "start_time" :> JNum(300) @@ "end_time" :> JNum(600)
                 @@ "prompt" :> JStr(<<"q">>))
RecBare == R("id" :> JNum(1) @@ "start_time" :> JNum(0) @@ "end_time" :> JNum(300))
RecBroken == R("id" :> JNum(1) @@ "start_time" :> JNum(0) @@ "end_time" :> JNum(300)
                 @@ "manim_code" :> JStr("bad("))
TimelineTexts ==
    { BlankText, InvalidText, JArr(<<>>), JObj("scenes" :> JNum(1)),
      Doc(0, <<RecCode, RecPrompt>>),
      Doc(0, <<RecAuto, RecPrompt>>),
      Doc(300, <<RecBare>>),
      Doc(0, <<RecBroken>>) }

\* the audio input: none, or a file with its length and transcript
NoAudio == [some |-> FALSE, duration |-> 0, transcript |-> <<>>]
Audio(duration, transcript) ==
    [some |-> TRUE, duration |-> duration, transcript |-> transcript]
AudioInputs == { NoAudio, Audio(300, <<>>), Audio(300, WordsBlank), Audio(300, WordsHi) }

\* what generate_code answers for the first and the second layer
ReplyInputs ==
    { << Returns("code2"), Returns("code2") >>,
      << Raises, Returns("code2") >>,
      << Returns("code2"), Raises >>,
      << Raises, Raises >>,
      << Returns("bad("), Returns("code2") >>,
      << Returns(""), Raises >> }

\* the selectable detection methods of the node
NodeMethods == {"sentence", "time"}

----------------------------------------------------------------------------
(* Actions *)

Init ==
    /\ \E d \in AudioDurations : 
          /\ audio_duration = NewManager(d).audio_duration
          /\ layers = NewManager(d).layers
          /\ next_scene_id = NewManager(d).next_scene_id
          /\ objs = NewManager(d).objs
    /\ json = NoText
    /\ saved = NoSaved
    /\ assigned = <<>>
    /\ order = <<>>
    /\ last = Called("init", "ok", NoText)

\* the caller constructs a SceneLayer
NewScene(inputs) ==
    /\ Len(objs) < MaxObjs
    /\ \E s \in inputs : objs' = Append(objs, s)
    /\ last' = Called("SceneLayer", "ok", NoText)
    /\ Forget
    /\ UNCHANGED <<audio_duration, layers, next_scene_id, assigned, order>>

\* manager.add_scene(scene), scene any SceneLayer the caller holds
AddScene ==
    /\ next_scene_id <= MaxId
    /\ \E a \in 1..Len(objs) :
          /\ Install(add_scene(M, a))
          /\ order' = Append(order, a)
          /\ assigned' = Append(assigned, add_scene(M, a).objs[a].scene_id)
    /\ last' = Called("add_scene", "ok", NoText)
    /\ Forget

\* manager.remove_scene(scene_id)
RemoveScene(ids) ==
    /\ \E id \in ids :
          /\ Install(remove_scene(M, id))
          /\ order' = SelectSeq(order, LAMBDA a : objs[a].scene_id # id)
          /\ last' = CalledWith("remove_scene", "ok", [scene_id |-> id], NoRet)
    /\ Forget
    /\ UNCHANGED assigned

\* manager.update_scene(scene_id, **kwargs)
UpdateScene(ids, kwargs) ==
    /\ \E id \in ids, kw \in kwargs :
          /\ Install(update_scene(M, id, kw))
          /\ last' = CalledWith("update_scene", "ok",
                                [scene_id |-> id, kwargs |-> kw], NoRet)
    /\ Forget
    /\ UNCHANGED <<assigned, order>>

\* manager.auto_detect_scenes(word_timestamps, method)
AutoDetect(inputs, methods) ==
    /\ \E ws \in inputs, method \in methods :
          LET r == auto_detect_scenes(M, ws, method)
          IN  /\ Len(r.m.objs) <= MaxObjs
              /\ r.m.next_scene_id <= MaxId + 1
              /\ Install(r.m)
              /\ last' = CalledWith("auto_detect_scenes",
                                    IF r.ok THEN "ok" ELSE r.error,
                                    [words |-> ws, method |-> method], r.scenes)
    /\ Forget
    /\ UNCHANGED <<assigned, order>>

\* manager.get_scenes_at_time(time)
GetScenesAtTime(times) ==
    /\ \E time \in times :
          last' = CalledWith("get_scenes_at_time", "ok", [time |-> time],
                             get_scenes_at_time(M, time))
    /\ Forget
    /\ UNCHANGED <<audio_duration, layers, next_scene_id, objs, assigned, order>>

\* scene.set_in_point(time), scene any SceneLayer the caller holds (one of the
\* Timeline's layers included); a set_in_point hidden by an instance
\* attribute is not callable
SetInPoint(times) ==
    /\ \E a \in 1..Len(objs), time \in times :
          IF "set_in_point" \in objs[a].shadowed
          THEN /\ objs' = objs
               /\ last' = CalledWith("set_in_point", "TypeError",
                                     [scene |-> a, time |-> time], NoRet)
          ELSE /\ objs' = [objs EXCEPT ![a] = set_in_point(@, time)]
               /\ last' = CalledWith("set_in_point", "ok",
                                     [scene |-> a, time |-> time], NoRet)
    /\ Forget
    /\ UNCHANGED <<audio_duration, layers, next_scene_id, assigned, order>>

\* for scene in manager.auto_detect_scenes(word_timestamps, method):
\*     manager.add_scene(scene)
DetectAndAdd(inputs, methods) ==
    /\ \E ws \in inputs, method \in methods :
          LET r == auto_detect_scenes(M, ws, method)
              m == add_each(r.m, r.scenes)
          IN  /\ Len(r.m.objs) <= MaxObjs
              /\ r.m.next_scene_id <= MaxId + 1
              /\ Install(m)
              /\ order' = order \o r.scenes
              /\ assigned' = assigned \o
                     [k \in 1..Len(r.scenes) |-> m.objs[r.scenes[k]].scene_id]
              /\ last' = CalledWith("detect_and_add",
                                    IF r.ok THEN "ok" ELSE r.error,
                                    [words |-> ws, method |-> method], r.scenes)
    /\ Forget

\* code = manager.generate_manim_timeline_code(frame_rate); `again` records
\* that the call before was the same call
GenerateCode(libs) ==
    /\ \E use_timeline \in libs :
          LET r == generate_manim_timeline_code(M, use_timeline)
              name == "generate_manim_timeline_code"
          IN  /\ Install(r.m)
              /\ last' = CalledWith(name, IF r.ok THEN "ok" ELSE r.error,
                                    [use_timeline |-> use_timeline,
                                     again |-> /\ last.op = name
                                               /\ last.arg.use_timeline = use_timeline],
                                    r.code)
    /\ Forget
    /\ UNCHANGED <<assigned, order>>

\* one run of the node on timeline_json `text`; the JSON it returns is kept
\* in `json`, the manager of the run in the variables
Run(text) ==
    /\ \E audio \in AudioInputs, auto \in BOOLEAN, method \in NodeMethods,
          replies \in ReplyInputs, use_timeline \in BOOLEAN,
          enable_captions \in BOOLEAN, returncode \in {0, 1} :
          \E r \in { render_timeline_scenes(
                         [ timeline_json |-> text, audio |-> audio,
                           auto_detect_scenes |-> auto, detection_method |-> method,
                           replies |-> replies, use_timeline |-> use_timeline,
                           enable_captions |-> enable_captions,
                           returncode |-> returncode ]) } :
              /\ Install(r.m)
              /\ json' = r.json
              /\ last' = [ op |-> "render_timeline_scenes", outcome |-> r.outcome,
                           text |-> text, arg |-> NoArg,
                           ret |-> [ before |-> r.before, steps |-> r.steps,
                                     document |-> r.document,
                                     rendered |-> r.rendered ] ]
              /\ order' = [i \in 1..Len(r.m.objs) |-> i]
    /\ assigned' = <<>>
    /\ saved' = NoSaved

\* a run on a timeline file.  The node keeps nothing from one run to the
\* next, so such a run is taken from the initial state only.
RenderTimelineScenes(texts) ==
    /\ last.op = "init"
    /\ \E text \in texts : Run(text)

\* a run on the timeline JSON the run before returned
RenderAgain == json # NoText /\ Run(json)

\* scene.set_out_point(time), scene any SceneLayer the caller holds
SetOutPoint(times) ==
    /\ \E a \in 1..Len(objs), time \in times :
          IF "set_out_point" \in objs[a].shadowed
          THEN /\ objs' = objs
               /\ last' = CalledWith("set_out_point", "TypeError",
                                     [scene |-> a, time |-> time], NoRet)
          ELSE /\ objs' = [objs EXCEPT ![a] = set_out_point(@, time)]
               /\ last' = CalledWith("set_out_point", "ok",
                                     [scene |-> a, time |-> time], NoRet)
    /\ Forget
    /\ UNCHANGED <<audio_duration, layers, next_scene_id, assigned, order>>

\* text = manager.to_json(): scene.to_dict() of a layer whose to_dict is
\* hidden by an instance attribute calls that value, a TypeError
ToJson ==
    /\ IF \E i \in 1..Len(layers) : "to_dict" \in objs[layers[i]].shadowed
       THEN /\ json' = NoText
            /\ saved' = NoSaved
            /\ last' = Called("to_json", "TypeError", NoText)
       ELSE /\ json' = to_json(M)
            /\ saved' = Snapshot(M)
            /\ last' = Called("to_json", "ok", NoText)
    /\ UNCHANGED <<audio_duration, layers, next_scene_id, objs, assigned, order>>

\* manager = TimelineSceneManager.from_json(text): on an error no manager
\* is returned and the caller keeps the one it has
Load(text) ==
    LET r == from_json(text)
    IN  /\ IF r.ok
           THEN /\ Install(r.m)
                /\ assigned' = <<>>
                /\ order' = [i \in 1..Len(r.m.objs) |-> i]
           ELSE UNCHANGED <<audio_duration, layers, next_scene_id, objs, assigned, order>>
        /\ last' = Called("from_json", IF r.ok THEN "ok" ELSE r.error, text)
        /\ json' = NoText

\* from_json of the text to_json just returned
FromJsonSaved ==
    /\ json # NoText
    /\ Load(json)
    /\ UNCHANGED saved

\* from_json of a text from elsewhere
FromJsonExternal(texts) ==
    /\ \E text \in texts : Load(text)
    /\ saved' = NoSaved

----------------------------------------------------------------------------
(* Specifications *)

\* every call, on the inputs above
Next ==
    \/ NewScene(SceneInputs)
    \/ AddScene
    \/ RemoveScene({1, 9})
    \/ UpdateScene({1, 9}, KwargsInputs)
    \/ AutoDetect(WordInputs, Methods)
    \/ ToJson
    \/ FromJsonSaved
    \/ FromJsonExternal(SomeTexts)

Spec == Init /\ [][Next]_vars

\* a Timeline edited in memory and saved and loaded again
NextEdit ==
    \/ NewScene(SceneInputs)
    \/ AddScene
    \/ RemoveScene(IdInputs)
    \/ AutoDetect(WordInputs, Methods)
    \/ ToJson
    \/ FromJsonSaved

SpecEdit == Init /\ [][NextEdit]_vars

\* a Timeline loaded from texts of any kind
NextLoad ==
    \/ NewScene({SceneLayer(1, 0, 300, <<"p">>, "auto", "code1", <<>>)})
    \/ AddScene
    \/ ToJson
    \/ FromJsonSaved
    \/ FromJsonExternal(ExternalTexts)

SpecLoad == Init /\ [][NextLoad]_vars

\* times a caller asks about or moves a point to
TimeInputs == {0, 300, 700}
PointInputs == {-50, 295, 400}

\* a freshly created Timeline built by add_scene and remove_scene and queried
NextBuild ==
    \/ NewScene(SceneInputs)
    \/ AddScene
    \/ RemoveScene(IdInputs)
    \/ GetScenesAtTime(TimeInputs)

SpecBuild == Init /\ [][NextBuild]_vars

\* a Timeline that holds a layer of the caller's and detects scenes
NextDetect ==
    \/ NewScene({SceneLayer(1, 0, 300, <<"p">>, "auto", "code1", <<>>)})
    \/ AddScene
    \/ AutoDetect(DetectInputs, Methods)
    \/ DetectAndAdd(DetectInputs, Methods)

SpecDetect == Init /\ [][NextDetect]_vars

\* a Timeline filled by detection whose layers are edited before scenes
\* are detected and added again
NextDetectEdit ==
    \/ UpdateScene(IdInputs, KwargsInputs)
    \/ DetectAndAdd(DetectInputs, Methods)

SpecDetectEdit == Init /\ [][NextDetectEdit]_vars

\* a Timeline whose layers are updated, moved and saved
NextUpdate ==
    \/ NewScene({SceneLayer(1, 0, 300, <<"p">>, "auto", "code1", <<>>)})
    \/ AddScene
    \/ UpdateScene({1, 9}, UpdateInputs)
    \/ SetInPoint({295})
    \/ ToJson

SpecUpdate == Init /\ [][NextUpdate]_vars

\* layers whose in point is moved, before and after they are put in a Timeline
NextPoints ==
    \/ NewScene(SceneInputs)
    \/ AddScene
    \/ SetInPoint(PointInputs)

SpecPoints == Init /\ [][NextPoints]_vars

\* a Timeline changed only by add_scene, remove_scene and update_scene
NextReorder ==
    \/ NewScene(SceneInputs)
    \/ AddScene
    \/ RemoveScene({1, 9})
    \/ UpdateScene({1, 9}, KwargsInputs)

SpecReorder == Init /\ [][NextReorder]_vars

\* scenes made, added and given out points
NextOutPoints ==
    \/ NewScene(SceneInputs)
    \/ AddScene
    \/ SetOutPoint(PointInputs)

SpecOutPoints == Init /\ [][NextOutPoints]_vars

\* a Timeline built by add_scene and compiled, with and without the
\* timing library
NextCompile ==
    \/ NewScene(SceneInputs)
    \/ AddScene
    \/ GenerateCode(BOOLEAN)

SpecCompile == Init /\ [][NextCompile]_vars

\* runs of the node, on timeline files and on what earlier runs returned
NextRender ==
    \/ RenderTimelineScenes(TimelineTexts)
    \/ RenderAgain

SpecRender == Init /\ [][NextRender]_vars

\* sentence detection on transcripts of every kind
NextSentence ==
    \/ AutoDetect(Transcripts, {"sentence"})

SpecSentence == Init /\ [][NextSentence]_vars

\* a Timeline built by add_scene and remove_scene alone, saved and loaded again
NextAddRemove ==
    \/ NewScene(SceneInputs)
    \/ AddScene
    \/ RemoveScene(IdInputs)
    \/ ToJson
    \/ FromJsonSaved

SpecAddRemove == Init /\ [][NextAddRemove]_vars

----------------------------------------------------------------------------
(* Properties *)

Layer(i) == objs[layers[i]]
Ids == {Layer(i).scene_id : i \in 1..Len(layers)}
Loaded == last.op = "from_json" /\ last.outcome = "ok"
Restored == Loaded /\ saved.some

\* C1: no two layers of the Timeline have the same id, in every state
\* reached from an empty Timeline or from from_json by add_scene,
\* remove_scene and update_scene
C1_IdsUnique ==
    \A i, j \in 1..Len(layers) : i # j => Layer(i).scene_id # Layer(j).scene_id

C3_IdsNeverReused ==
    \A i, j \in 1..Len(assigned) : i # j => assigned[i] # assigned[j]

\* add_scene has assigned an id after the layer of an earlier id was removed
C3_Witness ==
    /\ last.op = "add_scene"
    /\ Len(assigned) >= 2
    /\ Len(layers) < Len(assigned)
    /\ \E i \in 1..Len(assigned) : assigned[i] \notin Ids

MaxOf(S) == CHOOSE x \in S : \A y \in S : y <= x
SavedIds == {saved.layers[i].scene_id : i \in 1..Len(saved.layers)}

\* C4: after from_json(to_json(T)), T built by add_scene and remove_scene,
\* the next-id counter is the one T had
C4_CounterPersisted ==
    Restored => next_scene_id = saved.next_scene_id

\* C4 as amended: the counter of from_json(to_json(T)) is recomputed from the
\* layers T holds: 1 + the largest id among them, 1 when T has none; it is
\* never above T's counter and equals it exactly when T never assigned an
\* id or still holds the layer of the id it assigned last
C4_CounterRecomputed ==
    Restored =>
        /\ next_scene_id = (IF SavedIds = {} THEN 1 ELSE MaxOf(SavedIds) + 1)
        /\ next_scene_id <= saved.next_scene_id
        /\ next_scene_id = saved.next_scene_id
              <=> (saved.next_scene_id = 1 \/ saved.next_scene_id - 1 \in SavedIds)

\* a Timeline whose last-added layer was removed has been saved and loaded
C4_Witness ==
    /\ Restored
    /\ Len(layers) >= 1
    /\ next_scene_id < saved.next_scene_id

SortedByStart(ls) ==
    \A i, j \in 1..Len(ls) : i < j => objs[ls[i]].start_time <= objs[ls[j]].start_time
StartingAt(ls, t) == SelectSeq(ls, LAMBDA a : objs[a].start_time = t)

\* C5: right after add_scene `layers` is in ascending start_time order, and
\* the layers of one start_time are in the order they were added
C5_SortedStable ==
    last.op = "add_scene" =>
        /\ SortedByStart(layers)
        /\ \A i \in 1..Len(layers) :
              StartingAt(layers, Layer(i).start_time) = StartingAt(order, Layer(i).start_time)

\* add_scene has moved the layer it appended ahead of a later-starting one
C5_Witness ==
    /\ last.op = "add_scene"
    /\ Len(layers) >= 2
    /\ order # layers

\* add_scene has put a layer behind another object's layer of the same start_time
C5_TieReached ==
    /\ last.op = "add_scene"
    /\ \E i \in 1..Len(layers) - 1 :
          /\ layers[i] # layers[i + 1]
          /\ Layer(i).start_time = Layer(i + 1).start_time

\* C6: every layer of the Timeline lasts at least the minimum duration
C6_DurationFloor ==
    \A i \in 1..Len(layers) : Layer(i).end_time - Layer(i).start_time >= MinDuration

SameContent(a, b) ==
    /\ a.scene_id = b.scene_id
    /\ a.start_time = b.start_time
    /\ a.end_time = b.end_time
    /\ a.prompt = b.prompt
    /\ a.visual_type = b.visual_type
    /\ a.manim_code = b.manim_code
    /\ a.elements = b.elements

\* C7: from_json(to_json(T)) has as many layers as T, its i-th layer has the
\* id, times, prompt, visual_type, manim_code and elements of T's i-th layer,
\* and its audio_duration is not below T's
C7_RoundTrip ==
    Restored =>
        /\ Len(layers) = Len(saved.layers)
        /\ \A i \in 1..Len(layers) :
              i <= Len(saved.layers) => SameContent(Layer(i), saved.layers[i])
        /\ audio_duration >= saved.audio_duration

\* C8: a layer of T with auto_generated = true is a layer of
\* from_json(to_json(T)) with auto_generated = true
C8_FlagPreserved ==
    Restored =>
        \A i \in 1..Len(saved.layers) :
            saved.layers[i].auto_generated =>
                \E j \in 1..Len(layers) :
                    SameContent(Layer(j), saved.layers[i]) /\ Layer(j).auto_generated

\* C9: after a successful from_json the next-id counter is 1 + the largest
\* decoded id, or 1 when no layer was decoded
C9_CounterIsMaxPlusOne ==
    Loaded => next_scene_id = (IF Ids = {} THEN 1 ELSE MaxOf(Ids) + 1)

\* C9 as amended: the counter is the larger of 1 and 1 + the largest decoded
\* id (so 1 when no layer was decoded or every id is negative), and the
\* text {} gives audio_duration 0, no layers and counter 1
C9_CounterRecomputed ==
    Loaded =>
        /\ next_scene_id = (IF Ids = {} THEN 1 ELSE Max(1, MaxOf(Ids) + 1))
        /\ last.text = JObj(NoMembers) =>
              audio_duration = 0 /\ layers = <<>> /\ next_scene_id = 1

\* a file whose largest id is not on its last record has been loaded
C9_Witness ==
    /\ Loaded
    /\ ~saved.some
    /\ Len(layers) = 2
    /\ next_scene_id = Layer(1).scene_id + 1
    /\ Layer(2).scene_id < Layer(1).scene_id

\* the empty object has been loaded
C9_EmptyObjectLoaded == Loaded /\ last.text = JObj(NoMembers)

\* C10: from_json of a text that is not JSON, or whose top-level value is
\* not an object, ends in an error and returns no Timeline
C10_BadTextRejected ==
    (last.op = "from_json" /\ last.text.kind # "object") =>
        /\ last.outcome \in {"JSONDecodeError", "AttributeError"}
        /\ ~from_json(last.text).ok

\* from_json has been given valid JSON whose top-level value is an array
C10_Witness ==
    /\ last.op = "from_json"
    /\ last.text.kind = "array"
    /\ last.outcome = "AttributeError"

\* C11: add_scene gives the object passed the id the counter holds, whatever
\* id it carried, and raises the counter by one; on a freshly created
\* Timeline the k-th add_scene gets id k whatever the start times are, and
\* the layers are then in ascending start_time order
C11_AddAssignsNext ==
    [][ last'.op = "add_scene" =>
            /\ objs'[order'[Len(order')]].scene_id = next_scene_id
            /\ next_scene_id' = next_scene_id + 1
            /\ assigned' = Append(assigned, next_scene_id)
            /\ assigned'[Len(assigned')] = Len(assigned')
            /\ \A i, j \in 1..Len(layers') :
                  i < j => objs'[layers'[i]].start_time <= objs'[layers'[j]].start_time
      ]_vars

\* two layers have been added latest-starting first: they are stored
\* earliest first and have the ids 1 and 2 in call order
C11_Witness ==
    /\ last.op = "add_scene"
    /\ Len(order) = 2 /\ Len(layers) = 2 /\ Len(assigned) = 2
    /\ order[1] = layers[2] /\ order[2] = layers[1]
    /\ objs[order[1]].start_time > objs[order[2]].start_time
    /\ objs[order[1]].scene_id = 1 /\ objs[order[2]].scene_id = 2
    /\ [objs[order[1]] EXCEPT !.scene_id = 7] \in SceneInputs

\* C12: auto_detect_scenes puts nothing into the Timeline: `layers` holds the
\* same objects in the same order with the same field values as before, the
\* audio duration is the same, and the objects returned are new ones that
\* are not among the layers
C12_DetectInsertsNothing ==
    [][ last'.op = "auto_detect_scenes" =>
            /\ layers' = layers
            /\ \A i \in 1..Len(layers) : objs'[layers[i]] = objs[layers[i]]
            /\ audio_duration' = audio_duration
            /\ \A k \in 1..Len(last'.ret) :
                  /\ last'.ret[k] \notin {layers'[i] : i \in 1..Len(layers')}
                  /\ last'.ret[k] \notin 1..Len(objs)
                  /\ last'.ret[k] \in 1..Len(objs')
      ]_vars

\* auto_detect_scenes has returned a candidate on a Timeline that holds a layer
C12_Witness ==
    /\ last.op = "auto_detect_scenes"
    /\ last.outcome = "ok"
    /\ Len(layers) >= 1
    /\ Len(last.ret) >= 1
    /\ objs[last.ret[1]].auto_generated

Ascending(f) == \A k, l \in DOMAIN f : k < l => f[k] < f[l]

\* C14: remove_scene(id) raises nothing and takes out of `layers` the layers
\* with that id and no other: the layers with another id stay, in the order
\* they had, with the field values they had, and audio_duration and the
\* next-id counter stay; when no layer has the id nothing changes at all
C14_RemoveOnlyThat ==
    [][ last'.op = "remove_scene" =>
            LET id == last'.arg.scene_id
                kept == {i \in 1..Len(layers) : objs[layers[i]].scene_id # id}
            IN  /\ last'.outcome = "ok"
                /\ objs' = objs
                /\ audio_duration' = audio_duration
                /\ next_scene_id' = next_scene_id
                /\ Len(layers') = Cardinality(kept)
                /\ \E f \in [1..Len(layers') -> kept] :
                      /\ Ascending(f)
                      /\ \A k \in 1..Len(layers') : layers'[k] = layers[f[k]]
                /\ kept = 1..Len(layers) => layers' = layers
      ]_vars

\* remove_scene has taken one of two layers out of the Timeline
C14_Witness ==
    /\ last.op = "remove_scene"
    /\ Len(assigned) = 2
    /\ Len(layers) = 1
    /\ \E k \in 1..2 : assigned[k] = last.arg.scene_id
    /\ Layer(1).scene_id # last.arg.scene_id
    /\ next_scene_id = 3

\* remove_scene has been asked for an id no layer has, on a Timeline with layers
C14_AbsentReached ==
    /\ last.op = "remove_scene"
    /\ Len(layers) >= 1
    /\ last.arg.scene_id \notin Ids

\* C15: update_scene(id, updates) raises nothing and changes only the layer
\* with that id, and of it only the data fields that updates names, which
\* take the values given; a name that is no data field (a record key, a
\* method name) leaves the layer and its operations as they were; when no
\* layer has the id nothing changes
C15_UpdateOnlyNamedFields ==
    [][ last'.op = "update_scene" =>
            LET kwargs == last'.arg.kwargs
                a == get_scene(M, last'.arg.scene_id)
                named == {kwargs[k][1] : k \in 1..Len(kwargs)} \cap DataAttrs
            IN  /\ last'.outcome = "ok"
                /\ layers' = layers
                /\ audio_duration' = audio_duration
                /\ next_scene_id' = next_scene_id
                /\ \A b \in 1..Len(objs) : b # a => objs'[b] = objs[b]
                /\ Len(objs') = Len(objs)
                /\ a # 0 =>
                      /\ \A field \in DataAttrs \ named : objs'[a][field] = objs[a][field]
                      /\ \A k \in 1..Len(kwargs) :
                            kwargs[k][1] \in DataAttrs => objs'[a][kwargs[k][1]] = kwargs[k][2]
                      /\ objs'[a].shadowed = objs[a].shadowed
      ]_vars

\* C16: get_scenes_at_time(t) returns the layers with start_time <= t <=
\* end_time, all of them and no other, in the order they have in `layers`,
\* and leaves the Timeline as it was
C16_ScenesAtTime ==
    [][ last'.op = "get_scenes_at_time" =>
            LET t == last'.arg.time
                ret == last'.ret
                hits == {i \in 1..Len(layers) :
                            objs[layers[i]].start_time <= t /\ t <= objs[layers[i]].end_time}
            IN  /\ last'.outcome = "ok"
                /\ Len(ret) = Cardinality(hits)
                /\ \E f \in [1..Len(ret) -> hits] :
                      /\ Ascending(f)
                      /\ \A k \in 1..Len(ret) : ret[k] = layers[f[k]]
                /\ UNCHANGED <<audio_duration, layers, next_scene_id, objs>>
      ]_vars

\* get_scenes_at_time has returned two layers for a time at which one of
\* them ends and the other starts
C16_Witness ==
    /\ last.op = "get_scenes_at_time"
    /\ Len(layers) = 2
    /\ last.ret = layers
    /\ layers[1] # layers[2]
    /\ Layer(1).start_time < last.arg.time
    /\ Layer(1).end_time = last.arg.time
    /\ Layer(2).start_time = last.arg.time

\* get_scenes_at_time has returned some of the layers and not others
C16_SomeLeftOut ==
    /\ last.op = "get_scenes_at_time"
    /\ Len(last.ret) = 1
    /\ Len(layers) = 2

\* the k-th smallest member of a set of numbers, and the set as a sequence
Nth(S, k) == CHOOSE x \in S : Cardinality({y \in S : y < x}) = k - 1
SeqOf(S) == [k \in 1..Cardinality(S) |-> Nth(S, k)]

\* the words of a transcript whose trimmed text is not empty, those of them
\* that end a sentence, and the last words of the groups: every word that
\* ends a sentence and the last non-empty word
Spoken(ws) == {i \in 1..Len(ws) : strip(ws[i].word) # <<>>}
Closers(ws) ==
    {i \in Spoken(ws) : strip(ws[i].word)[Len(strip(ws[i].word))] \in {".", "!", "?", ":", ";"}}
GroupEnds(ws) ==
    Closers(ws) \cup (IF Spoken(ws) = {} THEN {} ELSE {MaxOf(Spoken(ws))})

\* the words of the k-th group, in input order
Members(ws, k) ==
    SeqOf({i \in Spoken(ws) :
              /\ i <= Nth(GroupEnds(ws), k)
              /\ k > 1 => i > Nth(GroupEnds(ws), k - 1)})

RECURSIVE Spaced(_)
\* texts put together with one space between two of them
Spaced(texts) ==
    IF texts = <<>> THEN <<>>
    ELSE IF Len(texts) = 1 THEN texts[1]
    ELSE texts[1] \o <<" ">> \o Spaced(Tail(texts))

Detected == last.op = "auto_detect_scenes" /\ last.arg.method = "sentence"

\* C17: in sentence mode auto_detect_scenes returns one candidate per group,
\* in input order; a group ends at each non-empty word whose trimmed text
\* ends in . ! ? : or ; and at the last non-empty word; the candidate starts
\* where the first word of its group starts, ends where the last one ends,
\* has the trimmed words joined by single spaces as its prompt, visual_type
\* "auto", no code and auto_generated set; the transcript of the tests
\* gives [0.0, 1.1] "Hello world ." and [1.5, 2.6] "This is a test ."
C17_SentenceScenes ==
    Detected =>
        LET ws == last.arg.words
            ret == last.ret
        IN  /\ last.outcome = "ok"
            /\ Len(ret) = Cardinality(GroupEnds(ws))
            /\ \A k \in 1..Len(ret) :
                  LET c == objs[ret[k]]
                      g == Members(ws, k)
                  IN  /\ c.start_time = ws[g[1]].start
                      /\ c.end_time = ws[g[Len(g)]].end
                      /\ c.prompt = Spaced([j \in 1..Len(g) |-> strip(ws[g[j]].word)])
                      /\ c.visual_type = "auto"
                      /\ c.manim_code = ""
                      /\ c.auto_generated
            /\ ws = WordsTest =>
                  /\ Len(ret) = 2
                  /\ objs[ret[1]].start_time = 0 /\ objs[ret[1]].end_time = 110
                  /\ objs[ret[1]].prompt =
                        <<"H", "e", "l", "l", "o", " ", "w", "o", "r", "l", "d", " ", ".">>
                  /\ objs[ret[2]].start_time = 150 /\ objs[ret[2]].end_time = 260
                  /\ objs[ret[2]].prompt =
                        <<"T", "h", "i", "s", " ", "i", "s", " ", "a", " ",
                          "t", "e", "s", "t", " ", ".">>

\* the transcript of the tests has been segmented
C17_Witness ==
    /\ Detected
    /\ last.arg.words = WordsTest
    /\ Len(last.ret) = 2

\* a transcript whose last words follow the last terminator has been segmented
C17_TailReached ==
    /\ Detected
    /\ Len(last.ret) = 2
    /\ Closers(last.arg.words) # GroupEnds(last.arg.words)

\* C18: sentence mode splits up exactly the non-empty words: no candidate
\* has an empty prompt, the prompts put together in the order returned are
\* the trimmed non-empty words of the transcript in input order, each once
\* (a blank word is in none, a lone full stop is in one), and there is no
\* candidate exactly when the transcript has no non-empty word
C18_SentencePartition ==
    Detected =>
        LET ws == last.arg.words
            ret == last.ret
            spoken == SeqOf(Spoken(ws))
        IN  /\ \A k \in 1..Len(ret) : objs[ret[k]].prompt # <<>>
            /\ Spaced([k \in 1..Len(ret) |-> objs[ret[k]].prompt])
                  = Spaced([j \in 1..Len(spoken) |-> strip(ws[spoken[j]].word)])
            /\ ret = <<>> <=> Spoken(ws) = {}
            /\ \A k \in 1..Len(ret) :
                  \E i, j \in Spoken(ws) :
                      /\ i <= j
                      /\ objs[ret[k]].start_time = ws[i].start
                      /\ objs[ret[k]].end_time = ws[j].end

\* a transcript with a blank word and a lone full stop has been segmented
C18_Witness ==
    /\ Detected
    /\ Len(last.ret) >= 1
    /\ \E i, j \in 1..Len(last.arg.words) :
          /\ strip(last.arg.words[i].word) = <<>>
          /\ strip(last.arg.words[j].word) = <<".">>

\* a transcript of blank words alone has been segmented
C18_BlankReached ==
    /\ Detected
    /\ last.arg.words # <<>>
    /\ Spoken(last.arg.words) = {}
    /\ last.ret = <<>>

\* C19: in time mode auto_detect_scenes raises nothing and returns, for an
\* audio duration D, one candidate per window [0, 5], [5, 10], ... that
\* starts below D, the last one ending at D, each with an empty prompt and
\* auto_generated set: none for D <= 0, one spanning [0.0, 3.0] for D = 3.0
C19_IntervalScenes ==
    (last.op = "auto_detect_scenes" /\ last.arg.method = "time") =>
        LET D == audio_duration
            n == IF D <= 0 THEN 0 ELSE (D + Interval - 1) \div Interval
        IN  /\ last.outcome = "ok"
            /\ Len(last.ret) = n
            /\ \A k \in 1..Len(last.ret) :
                  /\ objs[last.ret[k]].start_time = (k - 1) * Interval
                  /\ objs[last.ret[k]].end_time = Min(k * Interval, D)
                  /\ objs[last.ret[k]].prompt = <<>>
                  /\ objs[last.ret[k]].auto_generated

\* C20: set_in_point(t) raises nothing and sets start_time to
\* max(0, min(t, end_time - 0.01)), 0.01 the floor of get_duration; the end
\* time and the other fields stay, and the layer then lasts at least 0.01
C20_SetInPointClamps ==
    [][ last'.op = "set_in_point" =>
            LET a == last'.arg.scene
                t == last'.arg.time
            IN  /\ last'.outcome = "ok"
                /\ objs'[a].start_time = Max(0, Min(t, objs[a].end_time - MinDuration))
                /\ objs'[a] = [objs[a] EXCEPT !.start_time = objs'[a].start_time]
                /\ objs'[a].end_time - objs'[a].start_time >= MinDuration
                /\ \A b \in 1..Len(objs) : b # a => objs'[b] = objs[b]
      ]_vars

\* C21: set_out_point(t) raises nothing and sets end_time to
\* max(start_time + 0.01, t), 0.01 the floor of get_duration; the start time
\* and the other fields stay
C21_SetOutPointClamps ==
    [][ last'.op = "set_out_point" =>
            LET a == last'.arg.scene
                t == last'.arg.time
            IN  /\ last'.outcome = "ok"
                /\ objs'[a].end_time = Max(objs[a].start_time + MinDuration, t)
                /\ objs'[a] = [objs[a] EXCEPT !.end_time = objs'[a].end_time]
                /\ \A b \in 1..Len(objs) : b # a => objs'[b] = objs[b]
      ]_vars

\* the call the state comes from is a compilation that returned a text
Compiled == last.op = "generate_manim_timeline_code" /\ last.outcome = "ok"

\* C22: generate_manim_timeline_code leaves the layers, their fields, the
\* next-id counter and audio_duration as they were, and a call that follows
\* the same call, with the timing library as available as before, returns
\* the same text
C22_CompileIdempotent ==
    [][ last'.op = "generate_manim_timeline_code" =>
            /\ UNCHANGED <<audio_duration, layers, next_scene_id, objs>>
            /\ last'.arg.again => /\ last'.ret = last.ret
                                  /\ last'.outcome = last.outcome
      ]_vars

\* C22 witness: a Timeline of two layers compiled twice in a row for the
\* timing library
C22_Witness ==
    /\ Compiled
    /\ last.arg.again
    /\ last.arg.use_timeline
    /\ Len(layers) = 2
    /\ Len(last.ret.blocks) = 2

\* C23: without the timing library the text of a Timeline with layers has
\* the layers' blocks in the order of `layers`, and every block, custom
\* code or placeholder, ends in an advance of the layer's get_duration()
C23_SequentialWaits ==
    (Compiled /\ ~last.arg.use_timeline /\ layers # <<>>) =>
        /\ last.ret.strategy = "sequential"
        /\ Len(last.ret.blocks) = Len(layers)
        /\ \A i \in 1..Len(layers) :
              LET body == last.ret.blocks[i].body
              IN  /\ last.ret.blocks[i].scene_id = Layer(i).scene_id
                  /\ body # <<>>
                  /\ body[Len(body)] = Play(get_duration(Layer(i)))

\* C24: in both strategies every layer has a block that is not empty: the
\* layer's manim_code when it has one, otherwise the placeholder circle
\* played for max(0.01, end_time - start_time)
C24_EveryLayerHasBlock ==
    (Compiled /\ layers # <<>>) =>
        /\ last.ret.strategy = (IF last.arg.use_timeline THEN "timeline" ELSE "sequential")
        /\ Len(last.ret.blocks) = Len(layers)
        /\ \A i \in 1..Len(layers) :
              LET body == last.ret.blocks[i].body
                  s == Layer(i)
              IN  /\ last.ret.blocks[i].scene_id = s.scene_id
                  /\ body # <<>>
                  /\ IF s.manim_code # ""
                     THEN body = << Custom(s.manim_code) >>
                     ELSE /\ \E j \in 1..Len(body) : body[j] = CreateCircle
                          /\ body[Len(body)] =
                                 Play(Max(MinDuration, s.end_time - s.start_time))
                          /\ body[Len(body)].run_time >= MinDuration

\* C24 witness: a sequential compilation of a Timeline with a layer that
\* has no code and ends where it starts, and a layer with code
C24_Witness ==
    /\ Compiled
    /\ ~last.arg.use_timeline
    /\ \E i, j \in 1..Len(layers) :
          /\ Layer(i).manim_code = ""
          /\ Layer(i).end_time <= Layer(i).start_time
          /\ last.ret.blocks[i].body[4] = Play(MinDuration)
          /\ Layer(j).manim_code # ""

\* C29: with the timing library every layer is an entry of its own in the
\* dict `timeline` of the text, two layers with the same start_time
\* included
C29_EveryLayerDispatched ==
    (Compiled /\ last.arg.use_timeline /\ layers # <<>>) =>
        /\ Len(last.ret.blocks) = Len(layers)
        /\ \A i \in 1..Len(layers) :
              /\ last.ret.blocks[i].scene_id = Layer(i).scene_id
              /\ \E k \in DOMAIN timeline_dict(last.ret) :
                    timeline_dict(last.ret)[k] = i

\* C27: a layer stored in the Timeline keeps its id, times, prompt,
\* visual_type and manim_code when the caller afterwards changes an object
\* it holds or passes an object to add_scene again
C27_LayersNotAliased ==
    [][ last'.op \in {"add_scene", "set_in_point"} =>
            \A i \in 1..Len(layers) :
                LET s == objs[layers[i]]
                    t == objs'[layers[i]]
                IN  /\ t.scene_id = s.scene_id
                    /\ t.start_time = s.start_time
                    /\ t.end_time = s.end_time
                    /\ t.prompt = s.prompt
                    /\ t.visual_type = s.visual_type
                    /\ t.manim_code = s.manim_code
      ]_vars

\* C28: `layers` is in ascending order of start_time after every sequence
\* of add_scene, remove_scene and update_scene calls
C28_AlwaysSorted == SortedByStart(layers)

\* the state comes from a run of the node; the steps the run took
Ran == last.op = "render_timeline_scenes"
Has(name) == \E k \in 1..Len(last.ret.steps) : last.ret.steps[k].step = name
Asked(i, result) ==
    \E k \in 1..Len(last.ret.steps) :
        /\ last.ret.steps[k].step = "generate_code"
        /\ last.ret.steps[k].layer = i
        /\ last.ret.steps[k].result = result
GotEmpty(i) ==
    \E k \in 1..Len(last.ret.steps) :
        /\ last.ret.steps[k] = LayerStep("generate_code", i, Returns(""))
NeedsCode(s) == s.manim_code = "" /\ s.prompt # <<>>

\* C25: a run whose Timeline has no layers after loading and detection
\* ends in an error, with no compilation and no call of the renderer
C25_NoEmptyCompile ==
    (Ran /\ layers = <<>>) =>
        /\ last.outcome # "ok"
        /\ ~Has("compile")
        /\ ~Has("render")

\* C26 as stated: when generate_code raises for a layer the layer gets the
\* fallback code, generate_code is still called for every later layer with
\* a prompt and no code, and compilation is reached; after the loop every
\* layer with a prompt has code
C26_AllPromptsHaveCode ==
    Ran =>
        /\ \A i \in 1..Len(layers) :
              Asked(i, "raised") =>
                  /\ Layer(i).manim_code = FallbackCode
                  /\ \A j \in (i + 1)..Len(layers) :
                        NeedsCode(last.ret.before[j]) =>
                            Asked(j, "raised") \/ Asked(j, "returned")
                  /\ Has("compile")
        /\ Has("compile") =>
              \A i \in 1..Len(layers) :
                  Layer(i).prompt # <<>> => Layer(i).manim_code # ""

\* C26 amended: the same, but a layer for which generate_code returned an
\* empty text keeps an empty manim_code
C26_FailureRecovered ==
    Ran =>
        /\ \A i \in 1..Len(layers) :
              Asked(i, "raised") =>
                  /\ Layer(i).manim_code = FallbackCode
                  /\ FallbackCode # ""
                  /\ \A j \in (i + 1)..Len(layers) :
                        NeedsCode(last.ret.before[j]) =>
                            Asked(j, "raised") \/ Asked(j, "returned")
                  /\ Has("compile")
        /\ Has("compile") =>
              \A i \in 1..Len(layers) :
                  Layer(i).prompt # <<>> =>
                      IF GotEmpty(i) THEN Layer(i).manim_code = ""
                      ELSE Layer(i).manim_code # ""

\* C26 witness: generate_code raised for the first layer and was called for
\* the second, and the run went on to the renderer
C26_Witness ==
    /\ Ran
    /\ Len(layers) = 2
    /\ Asked(1, "raised")
    /\ Asked(2, "returned")
    /\ Layer(2).manim_code = "code2"
    /\ Has("render")

\* the place of a step in the order load, detect, code, compile, captions,
\* validate, render, return
Place(name) ==
    CASE name = "load" -> 1
      [] name = "detect" -> 2
      [] name = "generate_code" -> 3
      [] name = "compile" -> 4
      [] name = "captions" -> 5
      [] name = "validate" -> 6
      [] name = "render" -> 7
      [] name = "to_json" -> 8

\* every layer's own code in the document parses
Parses(code) ==
    \A i \in 1..Len(code.blocks) :
        \A j \in 1..Len(code.blocks[i].body) :
            code.blocks[i].body[j].stmt = "custom" =>
                code.blocks[i].body[j].text \notin Unparseable

\* C30: the steps of a run are in the order load, fill code, compile,
\* captions, validate, render; the renderer gets the validated document
\* and only one that parses; a document that does not parse ends the run
\* in an error with no call of the renderer and no timeline JSON
C30_ValidatedBeforeRender ==
    Ran =>
        /\ \A k, l \in 1..Len(last.ret.steps) :
              k < l => /\ Place(last.ret.steps[k].step) <= Place(last.ret.steps[l].step)
                       /\ Place(last.ret.steps[k].step) = Place(last.ret.steps[l].step)
                            => last.ret.steps[k].step = "generate_code"
        /\ Has("render") =>
              /\ Has("load") /\ Has("compile") /\ Has("validate")
              /\ last.ret.rendered = last.ret.document
              /\ Parses(last.ret.rendered)
        /\ ~Has("render") => last.ret.rendered = NoDocument
        /\ (Has("validate") /\ ~Parses(last.ret.document)) =>
              /\ last.outcome = "ValueError"
              /\ ~Has("render")
              /\ json = NoText
        /\ json # NoText => last.outcome = "ok" /\ Has("render")

\* C30: reached as well, a run that filled code, spliced captions and stopped at a
\* document that does not parse
C30_RejectedReached ==
    /\ Ran
    /\ Asked(1, "returned")
    /\ Has("captions")
    /\ Has("validate")
    /\ ~Parses(last.ret.document)
    /\ last.outcome = "ValueError"

\* C30 witness: a run goes through every step and returns the timeline JSON
C30_Witness ==
    /\ Ran
    /\ last.outcome = "ok"
    /\ Has("generate_code") /\ Has("captions") /\ Has("render") /\ Has("to_json")
    /\ json = to_json(M)

====
